---- MODULE Spec2Model ----
(***************************************************************************)
(* A model of the serverless web application pattern:                      *)
(*   - the three stacks of the topology definition (WafStack,              *)
(*     BackendStack, FrontendStack) and the way their handles are wired,   *)
(*   - the distribution at run time (behaviour matching, edge cache, the   *)
(*     BucketDeployment that uploads the web assets and invalidates),      *)
(*   - the sample-lambda-1 handler under concurrent invocations,           *)
(*   - the demo page's testApi.                                            *)
(* Paths are sequences of the segments that follow each "/":               *)
(*   "/" = <<"">>, "/index.html" = <<"index.html">>, "/api" = <<"api">>,   *)
(*   "/api/" = <<"api", "">>, "/api/lambda-1" = <<"api", "lambda-1">>.     *)
(***************************************************************************)
EXTENDS Integers, Sequences, FiniteSets, TLC

VARIABLES
    waf,        \* the WafStack, once constructed
    backend,    \* the BackendStack, once constructed
    frontend,   \* the FrontendStack, once constructed
    assetVersion, \* version of the content of the local 'web' directory
    s3Objects,  \* version of index.html held by the bucket (0: no object)
    deployPc,   \* position of the BucketDeployment: "idle" | "uploaded"
    published,  \* version published by the last completed BucketDeployment
    edgeCache,  \* edge cache of the distribution: cache key -> entry
    lastResp,   \* the last response the distribution gave a viewer
    lastApi,    \* the last response the RestApi gave a direct caller
    lastDirect, \* the last response the bucket gave a direct (public) caller
    inv,        \* sample-lambda-1: the invocations
    clock,      \* sample-lambda-1: the system clock (ms)
    logs,       \* sample-lambda-1: lines written by console.log
    calls,      \* demo page: the testApi calls in progress
    resultDiv   \* demo page: innerHTML of the result element

graphVars == <<waf, backend, frontend>>
edgeVars == <<assetVersion, s3Objects, deployPc, published, edgeCache, lastResp, lastApi, lastDirect>>
lambdaVars == <<inv, clock, logs>>
pageVars == <<calls, resultDiv>>
vars == <<waf, backend, frontend, assetVersion, s3Objects, deployPc, published,
          edgeCache, lastResp, lastApi, lastDirect, inv, clock, logs, calls, resultDiv>>

\* ------------------------------------------------------------------ bounds

MaxDeploys == 2

NInvocations == 2

MaxClock == 2

MaxPresses == 2

\* ------------------------------------------------------------- the stacks

NotBuilt == [built |-> FALSE]

RateLimit == 2000

\* new wafv2.CfnWebACL(this, 'WebACL', {...})
WebACL ==
    [ scope |-> "CLOUDFRONT",
      defaultAction |-> "allow",
      rules |-> << [ name |-> "RateLimitRule",
                     priority |-> 1,
                     limit |-> RateLimit,
                     aggregateKeyType |-> "IP",
                     action |-> "block" ] >>,
      attrArn |-> "arn:WafStack/WebACL" ]

\* new WafStack(scope, id, props?): no handle of another stack among its inputs
NewWafStack ==
    /\ ~waf.built
    /\ waf' = [built |-> TRUE, webAcl |-> WebACL]
    /\ UNCHANGED <<backend, frontend>>
    /\ UNCHANGED <<edgeVars, lambdaVars, pageVars>>

\* new apigateway.RestApi(this, 'Api', { defaultCorsPreflightOptions }): the root
\* resource, which gets the preflight OPTIONS method like every resource added later
RestApi ==
    [ restApiName |-> "Serverless API",
      corsPreflight |-> TRUE,
      resources |-> { <<"">> },
      methods |-> { [path |-> <<"">>, method |-> "OPTIONS", target |-> "mock"] },
      ok |-> TRUE ]

\* the path of the child `pathPart` of resource `parent`
ChildPath(parent, pathPart) ==
    IF parent = <<"">> THEN <<pathPart>> ELSE Append(parent, pathPart)

\* parent.addResource(pathPart): a second resource of the same path is an error
addResource(api, parent, pathPart) ==
    LET path == ChildPath(parent, pathPart) IN
    IF path \in api.resources \/ parent \notin api.resources
    THEN [api EXCEPT !.ok = FALSE]
    ELSE [api EXCEPT
            !.resources = @ \cup {path},
            !.methods = @ \cup
                (IF api.corsPreflight
                 THEN { [path |-> path, method |-> "OPTIONS", target |-> "mock"] }
                 ELSE {}) ]

\* resource.addMethod(httpMethod, integration): a second method of the same
\* (path, method) is an error
addMethod(api, path, httpMethod, integration) ==
    IF path \notin api.resources
       \/ \E m \in api.methods : m.path = path /\ m.method = httpMethod
    THEN [api EXCEPT !.ok = FALSE]
    ELSE [api EXCEPT
            !.methods = @ \cup { [path |-> path, method |-> httpMethod, target |-> integration] }]

\* BackendStack's routes with lambda-2's GET bound to integration1
BackendRoutesSwapped ==
    LET api0 == RestApi
        api1 == addResource(api0, <<"">>, "api")
        api2 == addResource(api1, <<"api">>, "lambda-1")
        api3 == addResource(api2, <<"api">>, "lambda-2")
        api4 == addMethod(api3, <<"api", "lambda-1">>, "GET", "ApiHandler1")
    IN  addMethod(api4, <<"api", "lambda-2">>, "GET", "ApiHandler1")

\* The routes of BackendStack, as its constructor builds them
BackendRoutes ==
    LET api0 == RestApi
        api1 == addResource(api0, <<"">>, "api")
        api2 == addResource(api1, <<"api">>, "lambda-1")
        api3 == addResource(api2, <<"api">>, "lambda-2")
        api4 == addMethod(api3, <<"api", "lambda-1">>, "GET", "ApiHandler1")
    IN  addMethod(api4, <<"api", "lambda-2">>, "GET", "ApiHandler2")

\* new BackendStack(scope, id, props?): no handle of another stack among its inputs
NewBackendStack ==
    /\ ~backend.built
    /\ BackendRoutes.ok
    /\ backend' = [ built |-> TRUE,
                    functions |-> { [id |-> "ApiHandler1", handler |-> "index.handler",
                                     code |-> "lambda/sample-lambda-1"],
                                    [id |-> "ApiHandler2", handler |-> "index.handler",
                                     code |-> "lambda/sample-lambda-2"] },
                    apiGateway |-> BackendRoutes ]
    /\ UNCHANGED <<waf, frontend>>
    /\ UNCHANGED <<edgeVars, lambdaVars, pageVars>>

\* a bucket open to public reads
WebsiteBucketPublic ==
    [ websiteIndexDocument |-> "index.html",
      websiteErrorDocument |-> "error.html",
      publicReadAccess |-> TRUE,
      blockPublicAccess |-> "NONE",
      removalPolicy |-> "DESTROY" ]

\* new s3.Bucket(this, 'WebsiteBucket', {...})
WebsiteBucket ==
    [ websiteIndexDocument |-> "index.html",
      websiteErrorDocument |-> "error.html",
      publicReadAccess |-> FALSE,
      blockPublicAccess |-> "BLOCK_ALL",
      removalPolicy |-> "DESTROY" ]

\* origins.S3BucketOrigin.withOriginAccessControl(this.bucket)
s3Origin == [kind |-> "s3", access |-> "OriginAccessControl", bucket |-> "WebsiteBucket"]

\* new origins.RestApiOrigin(props.apiGateway)
apiOrigin(apiGateway) == [kind |-> "api", restApi |-> apiGateway]

\* defaultBehavior: no cachePolicy given, so the toolkit's default (caching on)
DefaultBehavior ==
    [ pathPattern |-> <<"*">>,
      origin |-> "s3",
      viewerProtocolPolicy |-> "REDIRECT_TO_HTTPS",
      cachePolicy |-> "CACHING_OPTIMIZED" ]

\* the '/api/*' behaviour without its cachePolicy line
ApiBehaviorCachingDefault ==
    [ pathPattern |-> <<"api", "*">>,
      origin |-> "api",
      viewerProtocolPolicy |-> "REDIRECT_TO_HTTPS",
      cachePolicy |-> "CACHING_OPTIMIZED" ]

\* additionalBehaviors['/api/*']
ApiBehavior ==
    [ pathPattern |-> <<"api", "*">>,
      origin |-> "api",
      viewerProtocolPolicy |-> "REDIRECT_TO_HTTPS",
      cachePolicy |-> "CACHING_DISABLED" ]

\* the distribution without its webAclId line
DistributionNoWebAcl(props) ==
    [ defaultBehavior |-> DefaultBehavior,
      additionalBehaviors |-> <<ApiBehavior>>,
      origins |-> [s3 |-> s3Origin, api |-> apiOrigin(props.apiGateway)],
      defaultRootObject |-> "index.html",
      webAclId |-> "none" ]

\* new cloudfront.Distribution(this, 'Distribution', {...})
Distribution(props) ==
    [ defaultBehavior |-> DefaultBehavior,
      additionalBehaviors |-> <<ApiBehavior>>,
      origins |-> [s3 |-> s3Origin, api |-> apiOrigin(props.apiGateway)],
      defaultRootObject |-> "index.html",
      webAclId |-> props.webAcl.attrArn ]

\* a BucketDeployment without distributionPaths
distributionPathsNone == {}

\* distributionPaths of the BucketDeployment: '/*'
distributionPaths == { <<"*">> }

\* new s3deploy.BucketDeployment(this, 'DeployWebsite', {...})
DeployWebsite ==
    [ sources |-> "web",
      destinationBucket |-> "WebsiteBucket",
      distribution |-> "Distribution",
      distributionPaths |-> distributionPaths ]

\* The handles FrontendStack's props can be given: those already constructed
WebAclHandles == IF waf.built THEN {waf.webAcl} ELSE {}

ApiGatewayHandles == IF backend.built THEN {backend.apiGateway} ELSE {}

\* new FrontendStack(scope, id, props): props.apiGateway and props.webAcl are required
NewFrontendStack ==
    /\ ~frontend.built
    /\ \E webAcl \in WebAclHandles, apiGateway \in ApiGatewayHandles :
         LET props == [apiGateway |-> apiGateway, webAcl |-> webAcl] IN
         frontend' = [ built |-> TRUE,
                       bucket |-> WebsiteBucket,
                       distribution |-> Distribution(props),
                       deployment |-> DeployWebsite ]
    /\ UNCHANGED <<waf, backend>>
    /\ UNCHANGED <<edgeVars, lambdaVars, pageVars>>

\* ------------------------------------------------- the distribution at run time

\* Whether `path` matches a path pattern whose last segment may be the wildcard
Matches(pattern, path) ==
    IF pattern[Len(pattern)] = "*"
    THEN /\ Len(path) >= Len(pattern)
         /\ \A k \in 1..(Len(pattern) - 1) : path[k] = pattern[k]
    ELSE path = pattern

\* The behaviour that handles `path`: the additional behaviours in their order of
\* precedence, the default behaviour when none matches
\* (MatchBehaviorDefaultOnly: a distribution that ignores its additional behaviours)
MatchBehaviorDefaultOnly(dist, path) == dist.defaultBehavior

MatchBehavior(dist, path) ==
    LET add == dist.additionalBehaviors
        hits == { k \in 1..Len(add) : Matches(add[k].pathPattern, path) }
    IN  IF hits = {}
        THEN dist.defaultBehavior
        ELSE add[CHOOSE k \in hits : \A j \in hits : k <= j]

\* defaultRootObject: a request for "/" is a request for the root object
CacheKey(dist, path) == IF path = <<"">> THEN <<dist.defaultRootObject>> ELSE path

\* The integration a request to the RestApi is routed to, "none" when the
\* (path, method) pair has no method
Route(api, path, httpMethod) ==
    LET ms == { m \in api.methods : m.path = path /\ m.method = httpMethod } IN
    IF ms = {} THEN "none" ELSE (CHOOSE m \in ms : TRUE).target

LambdaTargets == {"ApiHandler1", "ApiHandler2"}

\* What the origin of behaviour `b` answers for `key`
OriginResponse(dist, b, key) ==
    IF b.origin = "s3"
    THEN IF key = <<"index.html">> /\ s3Objects > 0
         THEN [status |-> 200, version |-> s3Objects, target |-> "none"]
         ELSE [status |-> 403, version |-> 0, target |-> "none"]
    ELSE LET t == Route(dist.origins.api.restApi, key, "GET") IN
         [status |-> IF t \in LambdaTargets THEN 200 ELSE 403,
          version |-> 0, target |-> t]

ViewerPaths ==
    { <<"">>, <<"index.html">>, <<"api">>,
      <<"api", "lambda-1">>, <<"api", "lambda-2">>, <<"api", "other">> }

ApiPaths ==
    { <<"">>, <<"api">>, <<"api", "lambda-1">>, <<"api", "lambda-2">>, <<"api", "other">> }

HttpMethods == {"GET", "POST", "OPTIONS"}

NoEntry == [present |-> FALSE, status |-> 0, version |-> 0, target |-> "none"]

NoResp ==
    [ path |-> <<"">>, scheme |-> "none", status |-> 0, origin |-> "none", hit |-> FALSE,
      version |-> 0, target |-> "none", pcAt |-> "idle", publishedAt |-> 0 ]

\* A viewer's GET through the distribution
ViewerRequest(scheme, path) ==
    /\ frontend.built
    /\ LET dist == frontend.distribution
           b == MatchBehavior(dist, path)
           key == CacheKey(dist, path)
           cacheable == b.cachePolicy # "CACHING_DISABLED"
           entry == edgeCache[key]
           fresh == OriginResponse(dist, b, key)
           base == [NoResp EXCEPT !.path = path, !.scheme = scheme,
                                  !.pcAt = deployPc, !.publishedAt = published]
       IN
       IF scheme = "http" /\ b.viewerProtocolPolicy = "REDIRECT_TO_HTTPS"
       THEN /\ lastResp' = [base EXCEPT !.status = 301]
            /\ UNCHANGED edgeCache
       ELSE IF cacheable /\ entry.present
       THEN /\ lastResp' = [base EXCEPT !.status = entry.status, !.origin = b.origin,
                                        !.hit = TRUE, !.version = entry.version,
                                        !.target = entry.target]
            /\ UNCHANGED edgeCache
       ELSE /\ lastResp' = [base EXCEPT !.status = fresh.status, !.origin = b.origin,
                                        !.version = fresh.version, !.target = fresh.target]
            /\ edgeCache' =
                 IF cacheable
                 THEN [edgeCache EXCEPT ![key] =
                         [present |-> TRUE, status |-> fresh.status,
                          version |-> fresh.version, target |-> fresh.target]]
                 ELSE edgeCache
    /\ UNCHANGED <<assetVersion, s3Objects, deployPc, published, lastApi, lastDirect>>
    /\ UNCHANGED <<graphVars, lambdaVars, pageVars>>

\* A request made to the RestApi itself
ApiRequest(path, httpMethod) ==
    /\ backend.built
    /\ lastApi' = [path |-> path, method |-> httpMethod,
                   target |-> Route(backend.apiGateway, path, httpMethod)]
    /\ UNCHANGED <<assetVersion, s3Objects, deployPc, published, edgeCache, lastResp, lastDirect>>
    /\ UNCHANGED <<graphVars, lambdaVars, pageVars>>

\* An unsigned GET made to the bucket itself, not through the distribution
BucketRequest ==
    /\ frontend.built
    /\ lastDirect' =
         IF frontend.bucket.publicReadAccess /\ frontend.bucket.blockPublicAccess # "BLOCK_ALL"
         THEN 200
         ELSE 403
    /\ UNCHANGED <<assetVersion, s3Objects, deployPc, published, edgeCache, lastResp, lastApi>>
    /\ UNCHANGED <<graphVars, lambdaVars, pageVars>>

\* BucketDeployment, first half: the content of 'web' is uploaded to the bucket
DeployUpload ==
    /\ frontend.built
    /\ deployPc = "idle"
    /\ assetVersion < MaxDeploys
    /\ assetVersion' = assetVersion + 1
    /\ s3Objects' = assetVersion + 1
    /\ deployPc' = "uploaded"
    /\ UNCHANGED <<published, edgeCache, lastResp, lastApi, lastDirect>>
    /\ UNCHANGED <<graphVars, lambdaVars, pageVars>>

\* BucketDeployment, second half: the distribution's caches are invalidated for
\* distributionPaths, and the deployment completes
DeployInvalidate ==
    /\ frontend.built
    /\ deployPc = "uploaded"
    /\ edgeCache' =
         [ key \in DOMAIN edgeCache |->
             IF \E p \in frontend.deployment.distributionPaths : Matches(p, key)
             THEN NoEntry
             ELSE edgeCache[key] ]
    /\ published' = s3Objects
    /\ deployPc' = "idle"
    /\ UNCHANGED <<assetVersion, s3Objects, lastResp, lastApi, lastDirect>>
    /\ UNCHANGED <<graphVars, lambdaVars, pageVars>>

\* ------------------------------------------------- sample-lambda-1: the handler

\* JavaScript values, tagged with their kind
Undefined == [kind |-> "undefined"]

JsNull == [kind |-> "null"]

Str(s) == [kind |-> "string", val |-> s]

RequestIds == { Undefined, Str(""), Str("req-1"), Str("req-2") }

RequestContexts == { Undefined } \cup { [kind |-> "object", requestId |-> id] : id \in RequestIds }

\* The invocation events: any JSON value the function can be invoked with
Events == { JsNull } \cup { [kind |-> "object", requestContext |-> rc] : rc \in RequestContexts }

\* ToBoolean of a value: undefined, null and the empty string are falsy
Truthy(v) ==
    /\ v.kind \notin {"undefined", "null"}
    /\ v.kind = "string" => v.val # ""

\* a || b
Or(a, b) == IF Truthy(a) THEN a ELSE b

\* new Date(ms).toISOString(): the instant in the form YYYY-MM-DDTHH:mm:ss.sssZ
ToISOString(ms) == [kind |-> "string", format |-> "YYYY-MM-DDTHH:mm:ss.sssZ", epochMs |-> ms]

\* JSON.stringify(value): a string that holds the value's JSON text
JSONStringify(value) == [kind |-> "string", json |-> value]

Headers ==
    [ ContentType |-> "application/json",
      AccessControlAllowOrigin |-> "*",
      AccessControlAllowHeaders |-> "Content-Type",
      AccessControlAllowMethods |-> "OPTIONS,POST,GET" ]

\* Lines 4-19 of the handler, run when the clock reads `now`: the response, or the
\* TypeError that reading a property of null throws
\* (handlerCounting: a handler that numbers its responses by the lines logged so far)
handlerCounting(event, now) ==
    IF event.kind \in {"undefined", "null"}
    THEN [kind |-> "error", errorType |-> "TypeError"]
    ELSE [ kind |-> "response",
           statusCode |-> 200,
           headers |-> Headers,
           body |-> JSONStringify(
               [ message |-> "Hello from sample-lambda-1!",
                 timestamp |-> ToISOString(now),
                 requestId |-> Str(IF logs = 1 THEN "req-1" ELSE "req-2") ]) ]

handler(event, now) ==
    IF event.kind \in {"undefined", "null"}
    THEN [kind |-> "error", errorType |-> "TypeError"]
    ELSE LET rc == event.requestContext
             requestId == IF rc.kind \in {"undefined", "null"} THEN Undefined ELSE rc.requestId
         IN  [ kind |-> "response",
               statusCode |-> 200,
               headers |-> Headers,
               body |-> JSONStringify(
                   [ message |-> "Hello from sample-lambda-1!",
                     timestamp |-> ToISOString(now),
                     requestId |-> Or(requestId, Str("unknown")) ]) ]

IdleInvocation == [pc |-> "idle", event |-> JsNull, now |-> 0, result |-> Undefined]

\* The function is invoked with `event`
Invoke(i, event) ==
    /\ inv[i].pc = "idle"
    /\ inv' = [inv EXCEPT ![i] = [IdleInvocation EXCEPT !.pc = "start", !.event = event]]
    /\ UNCHANGED <<clock, logs>>
    /\ UNCHANGED <<graphVars, edgeVars, pageVars>>

\* Line 2: console.log('Event:', JSON.stringify(event, null, 2))
LogEvent(i) ==
    /\ inv[i].pc = "start"
    /\ logs' = logs + 1
    /\ inv' = [inv EXCEPT ![i].pc = "logged"]
    /\ UNCHANGED clock
    /\ UNCHANGED <<graphVars, edgeVars, pageVars>>

\* Lines 4-19: the response is built, reading the clock, and returned
Respond(i) ==
    /\ inv[i].pc = "logged"
    /\ inv' = [inv EXCEPT ![i].pc = "done",
                          ![i].now = clock,
                          ![i].result = handler(inv[i].event, clock)]
    /\ UNCHANGED <<clock, logs>>
    /\ UNCHANGED <<graphVars, edgeVars, pageVars>>

\* Time passes
Tick ==
    /\ clock < MaxClock
    /\ clock' = clock + 1
    /\ UNCHANGED <<inv, logs>>
    /\ UNCHANGED <<graphVars, edgeVars, pageVars>>

\* ------------------------------------------------------- demo page: testApi

\* What can come back from fetch(endpoint): the fetch is rejected (no response at
\* all), or it resolves with a response, whatever its status: the endpoint's own
\* answer, the RestApi's answer when the invocation of the function failed, or the
\* distribution's own error page
FetchOutcomes ==
    { [kind |-> "rejected", status |-> 0, failed |-> TRUE, bodyIsJson |-> FALSE,
       text |-> "Failed to fetch"],
      [kind |-> "response", status |-> 200, failed |-> FALSE, bodyIsJson |-> TRUE,
       text |-> "Hello from sample-lambda-1!"],
      [kind |-> "response", status |-> 502, failed |-> TRUE, bodyIsJson |-> TRUE,
       text |-> "Internal server error"],
      [kind |-> "response", status |-> 504, failed |-> TRUE, bodyIsJson |-> FALSE,
       text |-> "504 Gateway Timeout"] }

NoOutcome ==
    [kind |-> "none", status |-> 0, failed |-> FALSE, bodyIsJson |-> FALSE, text |-> ""]

Buttons ==
    { [endpoint |-> <<"api", "lambda-1">>, lambdaName |-> "Lambda 1"],
      [endpoint |-> <<"api", "lambda-2">>, lambdaName |-> "Lambda 2"] }

EmptyDiv == [kind |-> "empty", lambdaName |-> "", text |-> ""]

IdleCall ==
    [ pc |-> "idle", endpoint |-> <<"">>, lambdaName |-> "", fetches |-> 0,
      outcome |-> NoOutcome, shown |-> EmptyDiv ]

\* testLambda1 / testLambda2 -> testApi, up to its first await: 'Calling ...' is
\* shown and the one fetch is started
testApi(c, button) ==
    /\ calls[c].pc = "idle"
    /\ resultDiv' = [kind |-> "calling", lambdaName |-> button.lambdaName, text |-> ""]
    /\ calls' = [calls EXCEPT ![c] =
                   [IdleCall EXCEPT !.pc = "fetching", !.endpoint = button.endpoint,
                                    !.lambdaName = button.lambdaName, !.fetches = 1]]
    /\ UNCHANGED <<graphVars, edgeVars, lambdaVars>>

\* await fetch(endpoint) settles: a rejection goes to the catch block, a response
\* of any status goes on to response.json()
FetchSettles(c, outcome) ==
    /\ calls[c].pc = "fetching"
    /\ IF outcome.kind = "rejected"
       THEN LET div == [kind |-> "failed", lambdaName |-> calls[c].lambdaName,
                        text |-> outcome.text] IN
            /\ resultDiv' = div
            /\ calls' = [calls EXCEPT ![c].pc = "done", ![c].outcome = outcome,
                                      ![c].shown = div]
       ELSE /\ calls' = [calls EXCEPT ![c].pc = "parsing", ![c].outcome = outcome]
            /\ UNCHANGED resultDiv
    /\ UNCHANGED <<graphVars, edgeVars, lambdaVars>>

\* await response.json() settles: the parsed data is shown as a success, a body
\* that is not JSON goes to the catch block with the parser's message
JsonSettles(c) ==
    /\ calls[c].pc = "parsing"
    /\ LET div == IF calls[c].outcome.bodyIsJson
                  THEN [kind |-> "success", lambdaName |-> calls[c].lambdaName,
                        text |-> calls[c].outcome.text]
                  ELSE [kind |-> "failed", lambdaName |-> calls[c].lambdaName,
                        text |-> "Unexpected token"]
       IN /\ resultDiv' = div
          /\ calls' = [calls EXCEPT ![c].pc = "done", ![c].shown = div]
    /\ UNCHANGED <<graphVars, edgeVars, lambdaVars>>

CacheKeys == ViewerPaths \ { <<"">> }

NoApiResp == [path |-> <<"">>, method |-> "none", target |-> "none"]

Init ==
    /\ waf = NotBuilt
    /\ backend = NotBuilt
    /\ frontend = NotBuilt
    /\ assetVersion = 0
    /\ s3Objects = 0
    /\ deployPc = "idle"
    /\ published = 0
    /\ edgeCache = [key \in CacheKeys |-> NoEntry]
    /\ lastResp = NoResp
    /\ lastApi = NoApiResp
    /\ lastDirect = 0
    /\ inv = [i \in 1..NInvocations |-> IdleInvocation]
    /\ clock = 0
    /\ logs = 0
    /\ calls = [c \in 1..MaxPresses |-> IdleCall]
    /\ resultDiv = EmptyDiv

Next ==
    \/ NewWafStack
    \/ NewBackendStack
    \/ NewFrontendStack
    \/ \E scheme \in {"http", "https"}, path \in ViewerPaths : ViewerRequest(scheme, path)
    \/ \E path \in ApiPaths, httpMethod \in HttpMethods : ApiRequest(path, httpMethod)
    \/ BucketRequest
    \/ DeployUpload
    \/ DeployInvalidate

Spec == Init /\ [][Next]_vars

NextLambda ==
    \/ \E i \in 1..NInvocations, event \in Events : Invoke(i, event)
    \/ \E i \in 1..NInvocations : LogEvent(i)
    \/ \E i \in 1..NInvocations : Respond(i)
    \/ Tick

SpecLambda == Init /\ [][NextLambda]_vars

NextPage ==
    \/ \E c \in 1..MaxPresses, button \in Buttons : testApi(c, button)
    \/ \E c \in 1..MaxPresses, outcome \in FetchOutcomes : FetchSettles(c, outcome)
    \/ \E c \in 1..MaxPresses : JsonSettles(c)

SpecPage == Init /\ [][NextPage]_vars

\* -------------------------------------------------------------- properties

ApiPattern == <<"api", "*">>

\* C1: a viewer request whose path matches /api/* is never answered from the edge
\* cache: it is forwarded to the API origin every time and the cache keeps no entry
\* for such a path; a request to / may be answered from the cache (C1Witness).
C1_ApiNeverCached ==
    /\ \A key \in CacheKeys : Matches(ApiPattern, key) => ~edgeCache[key].present
    /\ (lastResp.status # 0 /\ Matches(ApiPattern, lastResp.path))
         => /\ ~lastResp.hit
            /\ lastResp.scheme = "https" => lastResp.origin = "api"

\* an /api/* request was forwarded while index.html sits in the edge cache
C1_Witness ==
    /\ lastResp.path = <<"api", "lambda-1">>
    /\ lastResp.status = 200
    /\ lastResp.origin = "api"
    /\ ~lastResp.hit
    /\ edgeCache[<<"index.html">>].present

\* C2: once a BucketDeployment (upload, then invalidation of /*) has completed, a
\* request to / is answered with the content that deployment published, never with
\* older content.
C2_NoStaleAfterPublish ==
    ( /\ lastResp.status # 0
      /\ lastResp.scheme = "https"
      /\ lastResp.path = <<"">>
      /\ lastResp.pcAt = "idle"
      /\ lastResp.publishedAt > 0 )
    => /\ lastResp.status = 200
       /\ lastResp.version = lastResp.publishedAt

\* a request to / after the second deployment completed, answered with its content
C2_Witness ==
    /\ lastResp.scheme = "https"
    /\ lastResp.path = <<"">>
    /\ lastResp.pcAt = "idle"
    /\ lastResp.publishedAt = 2
    /\ lastResp.version = 2

DeclaredRoutes ==
    { [path |-> <<"api", "lambda-1">>, method |-> "GET", target |-> "ApiHandler1"],
      [path |-> <<"api", "lambda-2">>, method |-> "GET", target |-> "ApiHandler2"] }

\* C5: the route table of BackendStack has no two entries with the same (path,
\* method); the entries that lead to an endpoint are exactly GET /api/lambda-1 ->
\* endpoint 1 and GET /api/lambda-2 -> endpoint 2; a request for any other
\* (path, method) is not routed to an endpoint.
C5_RouteTable ==
    /\ backend.built =>
         /\ \A m1, m2 \in backend.apiGateway.methods :
              (m1.path = m2.path /\ m1.method = m2.method) => m1 = m2
         /\ { m \in backend.apiGateway.methods : m.target \in LambdaTargets } = DeclaredRoutes
    /\ lastApi.method # "none" =>
         (lastApi.target \in LambdaTargets <=> lastApi \in DeclaredRoutes)
    /\ (lastResp.status # 0 /\ lastResp.target \in LambdaTargets) =>
         [path |-> lastResp.path, method |-> "GET", target |-> lastResp.target] \in DeclaredRoutes

\* GET /api/lambda-2 reached endpoint 2 and an undeclared path reached none
C5_Witness ==
    /\ lastApi = [path |-> <<"api", "lambda-2">>, method |-> "GET", target |-> "ApiHandler2"]
    /\ lastResp.path = <<"api", "other">>
    /\ lastResp.status = 403
    /\ lastResp.target = "none"

\* C6: FrontendStack exists only once WafStack and BackendStack do, the web ACL on
\* its distribution and the RestApi behind its API origin are the ones those two
\* stacks produced, and no stack changes once it is constructed.
C6_OneDirectional ==
    /\ [](frontend.built =>
            /\ waf.built
            /\ backend.built
            /\ frontend.distribution.webAclId = waf.webAcl.attrArn
            /\ frontend.distribution.origins.api.restApi = backend.apiGateway)
    /\ [][ /\ waf.built => waf' = waf
           /\ backend.built => backend' = backend
           /\ frontend.built => frontend' = frontend ]_vars

\* the three stacks are constructed and the distribution has served a request
C6_Witness ==
    /\ frontend.built
    /\ frontend.distribution.webAclId = "arn:WafStack/WebACL"
    /\ lastResp.status = 200

\* C7: the distribution has one default behaviour (pattern *), every request whose
\* path matches /api/* goes to the RestApi origin and is routed by BackendStack's
\* RestApi, every other request goes to the bucket origin, and a plain-http request
\* to either behaviour is redirected.
C7_BehaviorMatching ==
    /\ frontend.built =>
         LET dist == frontend.distribution IN
         /\ dist.defaultBehavior.pathPattern = <<"*">>
         /\ dist.defaultBehavior.viewerProtocolPolicy = "REDIRECT_TO_HTTPS"
         /\ \A k \in 1..Len(dist.additionalBehaviors) :
              /\ dist.additionalBehaviors[k].pathPattern # <<"*">>
              /\ dist.additionalBehaviors[k].viewerProtocolPolicy = "REDIRECT_TO_HTTPS"
    /\ (lastResp.status # 0 /\ lastResp.scheme = "http") =>
         /\ lastResp.status = 301
         /\ lastResp.origin = "none"
    /\ (lastResp.status # 0 /\ lastResp.scheme = "https") =>
         IF Matches(ApiPattern, lastResp.path)
         THEN /\ lastResp.origin = "api"
              /\ lastResp.target = Route(backend.apiGateway, lastResp.path, "GET")
         ELSE lastResp.origin = "s3"

\* a request for /api (no trailing segment) went to the bucket origin
C7_Witness ==
    /\ lastResp.scheme = "https"
    /\ lastResp.path = <<"api">>
    /\ lastResp.origin = "s3"
    /\ lastResp.status = 403

\* C8: the bucket is private (no public read, all public access blocked), has
\* index.html as index document and removal policy destroy; the default behaviour
\* reaches it through the origin-access-control origin, and an unsigned request
\* made to the bucket itself is refused.
C8_PrivateBucket ==
    /\ frontend.built =>
         /\ ~frontend.bucket.publicReadAccess
         /\ frontend.bucket.blockPublicAccess = "BLOCK_ALL"
         /\ frontend.bucket.websiteIndexDocument = "index.html"
         /\ frontend.bucket.removalPolicy = "DESTROY"
         /\ frontend.distribution.defaultBehavior.origin = "s3"
         /\ frontend.distribution.origins.s3.access = "OriginAccessControl"
    /\ lastDirect \in {0, 403}

\* the bucket refused a direct request while the distribution served index.html
C8_Witness ==
    /\ lastDirect = 403
    /\ lastResp.path = <<"">>
    /\ lastResp.origin = "s3"
    /\ lastResp.status = 200

\* The request identifier the invocation context of `event` holds, if it holds one
HasRequestId(event) ==
    /\ event.kind = "object"
    /\ event.requestContext.kind = "object"
    /\ event.requestContext.requestId.kind = "string"

\* C4: for every invocation event the handler returns statusCode 200, the CORS
\* headers, and a JSON body with the fixed message, the ISO-8601 timestamp and
\* requestId equal to the event's request identifier when it has one, "unknown"
\* only when it has none.
C4_HandlerResponse ==
    \A i \in 1..NInvocations :
        inv[i].pc = "done" =>
            /\ inv[i].result.kind = "response"
            /\ inv[i].result.statusCode = 200
            /\ inv[i].result.headers.AccessControlAllowOrigin = "*"
            /\ inv[i].result.headers.AccessControlAllowMethods = "OPTIONS,POST,GET"
            /\ inv[i].result.body.json.message = "Hello from sample-lambda-1!"
            /\ inv[i].result.body.json.timestamp = ToISOString(inv[i].now)
            /\ inv[i].result.body.json.requestId =
                 IF HasRequestId(inv[i].event)
                 THEN inv[i].event.requestContext.requestId
                 ELSE Str("unknown")

\* C9: every testApi call makes one fetch; a call whose endpoint failed shows an
\* error message that holds the failure text, and a success is shown only for a
\* call whose endpoint did not fail.
C9_FailureSurfaced ==
    \A c \in 1..MaxPresses :
        calls[c].pc = "done" =>
            /\ calls[c].fetches = 1
            /\ calls[c].shown.kind = "success" => ~calls[c].outcome.failed
            /\ calls[c].outcome.failed =>
                 /\ calls[c].shown.kind = "failed"
                 /\ calls[c].shown.text = calls[c].outcome.text

====
